---- MODULE Spec2Model ----
(***************************************************************************)
(* A model of egui_clickpack_db (src/src/lib.rs): the ClickpackDb panel,   *)
(* its loader threads (load_database / load_hiatus), its download threads  *)
(* (download_entry) and the update cycle (show / update_pending_update /   *)
(* show_table / manage_row).                                                *)
(*                                                                         *)
(* An IndexMap<String, Entry> is a sequence of [key, val] records with     *)
(* distinct keys (insertion order is part of its value).  An Option<T> is  *)
(* a sequence of length at most one: <<>> is None, <<x>> is Some(x).       *)
(***************************************************************************)
EXTENDS Integers, Sequences, FiniteSets, TLC

VARIABLES
    live,                     \* cfg!(feature = "live") of the build
    status,                   \* ClickpackDb.status   : Arc<RwLock<Status>>
    db,                       \* ClickpackDb.db       : Arc<RwLock<Database>>
    filtered_entries,         \* ClickpackDb.filtered_entries
    search_query,             \* ClickpackDb.search_query
    tags,                     \* ClickpackDb.tags
    pending_update,           \* ClickpackDb.pending_update : Arc<RwLock<IndexMap>>
    select_clickpack,         \* ClickpackDb.select_clickpack : Option<PathBuf>
    pending_clickpack_delete, \* ClickpackDb.pending_clickpack_delete
    has_refreshed,            \* ClickpackDb.has_refreshed (feature "live")
    dirs,                     \* the directories that exist on disk
    ui,                       \* the UI thread: its place in show() and its locals
    loaders,                  \* the threads spawned by load_database
    tasks,                    \* the threads spawned by download_entry
    upserted,                 \* history: keys of pending_update already upserted
    server,                   \* the catalog bodies the server of this run serves
    budget,                   \* what this run may still do (the bounds of the run)
    input                     \* the arguments of a function applied on its own

vars == <<live, status, db, filtered_entries, search_query, tags, pending_update,
          select_clickpack, pending_clickpack_delete, has_refreshed, dirs, ui,
          loaders, tasks, upserted, server, budget, input>>

-----------------------------------------------------------------------------
(* Bounds of the model. *)

\* the largest popularity count the popularity service reports
MaxCount == 1
\* the largest fuzzy-match score
MaxScore == 1
\* catalog loads (threads of load_database) in one run
MaxLoads == 2
\* downloads (threads of download_entry) in one run
MaxStarts == 2
\* changes of the search string or of a tag in one run
MaxEdits == 2
\* calls of mark_downloaded in one run
\* the longest run of '_' on a directory that exists before a click
MaxSuffix == 2

MaxMarks == 1

-----------------------------------------------------------------------------
(* Values. *)

Names == {"a", "b", "c"}

None == <<>>
Some(x) == <<x>>

NotDownloaded == [t |-> "NotDownloaded"]
Downloading == [t |-> "Downloading"]
Downloaded(path, do_select) ==
    [t |-> "Downloaded", path |-> path, do_select |-> do_select]
DlError(msg) == [t |-> "Error", msg |-> msg]

NotLoaded == [t |-> "NotLoaded"]
Loading == [t |-> "Loading"]
StError(msg) == [t |-> "Error", msg |-> msg]
Loaded(did_filter) == [t |-> "Loaded", did_filter |-> did_filter]

\* A deserialized Entry: the #[serde(skip)] fields take their defaults.
Entry(has_noise, url) ==
    [has_noise |-> has_noise, url |-> url, dwn_status |-> NotDownloaded,
     downloads |-> 0, downloads_str |-> ""]

TagsDefault == [noise |-> FALSE, downloaded |-> FALSE]

has_any(t) == t.noise \/ t.downloaded

DatabaseDefault == [updated_at_unix |-> 0, entries |-> <<>>, hiatus |-> ""]

-----------------------------------------------------------------------------
(* IndexMap. *)

Keys(m) == {m[i].key : i \in DOMAIN m}

contains_key(m, k) == k \in Keys(m)

IndexOf(m, k) == CHOOSE i \in DOMAIN m : m[i].key = k

get(m, k) == m[IndexOf(m, k)].val

\* IndexMap::insert: an existing key keeps its place and takes the new value,
\* a new key goes to the end.
insert(m, k, v) ==
    IF contains_key(m, k)
    THEN [m EXCEPT ![IndexOf(m, k)] = [key |-> k, val |-> v]]
    ELSE Append(m, [key |-> k, val |-> v])

\* A stable sort by descending sort key of a sequence of [k, item] records:
\* each element is placed behind every element whose key is not smaller.
RECURSIVE InsertDesc(_, _)
InsertDesc(s, x) ==
    IF s = <<>> THEN <<x>>
    ELSE IF Head(s).k >= x.k THEN <<Head(s)>> \o InsertDesc(Tail(s), x)
    ELSE <<x>> \o s

RECURSIVE StableSortDesc(_)
StableSortDesc(s) ==
    IF s = <<>> THEN <<>>
    ELSE InsertDesc(StableSortDesc(SubSeq(s, 1, Len(s) - 1)), s[Len(s)])

Items(s) == [i \in DOMAIN s |-> s[i].item]

-----------------------------------------------------------------------------
(* update_filtered_entries. *)

\* SkimMatcherV2::fuzzy_match(k, query): the code reads a query only through
\* is_empty() and through the Option<i64> this gives for each key.
fuzzy_match(k, query) == query.score[k]

unwrap_or(opt, d) == IF opt = None THEN d ELSE opt[1]

\* A faulty retain closure that keeps an entry satisfying ANY active tag;
\* C8 has to tell it from tag_retain.
tag_retain_any(t, v) ==
    (t.noise /\ v.has_noise) \/ (t.downloaded /\ v.dwn_status.t = "Downloaded")

\* the closure of the tag retain
tag_retain(t, v) ==
    IF t.noise /\ ~v.has_noise THEN FALSE
    ELSE IF t.downloaded /\ v.dwn_status.t # "Downloaded" THEN FALSE
    ELSE TRUE

retain_tags(m, t) ==
    IF has_any(t) THEN SelectSeq(m, LAMBDA e : tag_retain(t, e.val)) ELSE m

\* A faulty sort that is descending but turns equal entries around;
\* C9 has to tell it from sort_by_downloads.
sort_by_downloads_unstable(m) ==
    Items(StableSortDesc([i \in DOMAIN m |->
        [k |-> m[Len(m) + 1 - i].val.downloads, item |-> m[Len(m) + 1 - i]]]))

\* sort_by(|_, v1, _, v2| v2.downloads.cmp(&v1.downloads))
sort_by_downloads(m) ==
    Items(StableSortDesc([i \in DOMAIN m |-> [k |-> m[i].val.downloads, item |-> m[i]]]))

retain_match(m, query) ==
    SelectSeq(m, LAMBDA e : fuzzy_match(e.key, query) # None)

\* A faulty sort without the Reverse: ascending score;
\* C10 has to tell it from sort_by_score.
sort_by_score_ascending(m, query) ==
    Items(StableSortDesc([i \in DOMAIN m |->
        [k |-> 0 - unwrap_or(fuzzy_match(m[i].key, query), 0), item |-> m[i]]]))

\* sort_by_cached_key(|k, _| Reverse(fuzzy_match(k, query).unwrap_or(0)))
sort_by_score(m, query) ==
    Items(StableSortDesc([i \in DOMAIN m |->
        [k |-> unwrap_or(fuzzy_match(m[i].key, query), 0), item |-> m[i]]]))

fuzzy_sort(m, query) ==
    IF ~query.is_empty THEN sort_by_score(retain_match(m, query), query) ELSE m

update_filtered_entries(entries, t, query) ==
    fuzzy_sort(sort_by_downloads(retain_tags(entries, t)), query)

-----------------------------------------------------------------------------
(* load_hiatus: the merge of the popularity response.  The response is a    *)
(* HashMap<String, u32>: a function from the names it holds to counts.      *)

\* A faulty merge step that does not skip a zero count;
\* C7 has to tell it from merge_one.
merge_one_any_count(entries, name, downloads) ==
    IF contains_key(entries, name)
    THEN [entries EXCEPT ![IndexOf(entries, name)].val.downloads = downloads,
                         ![IndexOf(entries, name)].val.downloads_str = ToString(downloads)]
    ELSE entries

merge_one(entries, name, downloads) ==
    IF downloads = 0 THEN entries
    ELSE IF contains_key(entries, name)
    THEN [entries EXCEPT ![IndexOf(entries, name)].val.downloads = downloads,
                         ![IndexOf(entries, name)].val.downloads_str = ToString(downloads)]
    ELSE entries

RECURSIVE merge_loop(_, _, _)
merge_loop(entries, downloads, todo) ==
    IF todo = {} THEN entries
    ELSE LET name == CHOOSE n \in todo : TRUE
         IN merge_loop(merge_one(entries, name, downloads[name]), downloads,
                       todo \ {name})

merge_downloads(entries, downloads) ==
    merge_loop(entries, downloads, DOMAIN downloads)

-----------------------------------------------------------------------------
(* What the outside world may answer. *)

\* The bodies the catalog GET may return once parsed (db.json changes over time).
CatalogV1 ==
    [updated_at_unix |-> 1,
     entries |-> << [key |-> "a", val |-> Entry(TRUE, "url_a")],
                    [key |-> "b", val |-> Entry(FALSE, "url_b")] >>,
     hiatus |-> "hiatus"]

CatalogV2 ==
    [updated_at_unix |-> 2,
     entries |-> << [key |-> "b", val |-> Entry(FALSE, "url_b")] >>,
     hiatus |-> "hiatus"]

CatalogV3 ==
    [updated_at_unix |-> 3,
     entries |-> << [key |-> "a", val |-> Entry(TRUE, "url_a")] >>,
     hiatus |-> "hiatus"]

\* A run is against a server whose db.json changes between loads (it loses
\* "a"), or against one that serves the same one-entry db.json every time.
Catalogs(srv) == IF srv = "changing" THEN {CatalogV1, CatalogV2} ELSE {CatalogV3}

\* The runs the model covers: the server, and how many loads, downloads,
\* filter edits and mark_downloaded calls the run may make.
Budgets ==
    { [server |-> "changing", loads |-> 1, starts |-> MaxStarts, edits |-> 0, marks |-> 0],
      [server |-> "changing", loads |-> 1, starts |-> 1, edits |-> MaxEdits, marks |-> 0],
      [server |-> "changing", loads |-> 1, starts |-> 1, edits |-> 0, marks |-> MaxMarks],
      [server |-> "changing", loads |-> MaxLoads, starts |-> 1, edits |-> 0, marks |-> 0],
      [server |-> "fixed", loads |-> MaxLoads, starts |-> MaxStarts, edits |-> 0, marks |-> 0] }

\* The bodies GET <hiatus>/downloads/all may return once parsed.
CatalogNames == {"a", "b"}
Responses == UNION {[S -> 0..MaxCount] : S \in SUBSET Names}

\* The search strings: EmptyQuery is "", the others are told apart by what
\* the matcher answers for each key.
ScoreOpt == {None} \cup {Some(n) : n \in 0..MaxScore}
EmptyQuery == [is_empty |-> TRUE, score |-> [n \in Names |-> None]]
Query(score) == [is_empty |-> FALSE, score |-> score]
Queries == {Query(f) : f \in [Names -> ScoreOpt]}

\* the strings typed into the search box of the running panel
UiQueries ==
    {EmptyQuery,
     Query([n \in Names |-> IF n = "b" THEN Some(0) ELSE None]),
     Query([n \in Names |-> IF n = "b" THEN Some(MaxScore) ELSE Some(0)])}

\* Paths: the automatic destination of entry n with k trailing '_', and the
\* folder the picker returns.
AutoPath(n, k) == <<"auto", n, k>>
PickedPath == <<"picked", "", 0>>
IsAuto(p) == p[1] = "auto"


-----------------------------------------------------------------------------
(* The UI thread.  ui.pc is its place in show(); the other fields are the   *)
(* locals of the frame.  Between frames it is UiIdle.  A step of the UI     *)
(* thread is one access to what it shares with the other threads (status,   *)
(* db, pending_update, the disk) with the thread-local code around it.      *)

NoEntry == Entry(FALSE, "")

UiIdle ==
    [pc |-> "idle", status |-> NotLoaded, i |-> 0, row |-> 0, n_rows |-> 0,
     clicked |-> FALSE, name |-> "", entry |-> NoEntry, set |-> NotDownloaded,
     then |-> "", path |-> None]

\* the read guard of pending_update that the for loop of update_pending_update
\* holds from its first entry to its last
PendingReadLocked == ui.pc = "pending" /\ ui.i >= 1

\* add_enabled_ui(!matches!(status, Status::NotLoaded | Status::Loading), ..)
TableEnabled(st) == st.t \notin {"NotLoaded", "Loading"}

\* body.rows(.., self.filtered_entries.len(), ..): ui.row is the last row the
\* closure has been called for, ui.n_rows the length the table was built with
ToRows(u, n, clicked) ==
    [u EXCEPT !.pc = "rows", !.i = 0, !.row = 0, !.n_rows = n, !.clicked = clicked]

\* where show() goes once update_pending_update has cleared the queue
AfterDeletes(u) ==
    IF TableEnabled(u.status) THEN [u EXCEPT !.pc = "table", !.i = 0] ELSE UiIdle

AfterPending(u, deletes) ==
    IF deletes # <<>> THEN [u EXCEPT !.pc = "deletes", !.i = 0] ELSE AfterDeletes(u)

\* the row closure returns
RowDone(u) ==
    [u EXCEPT !.pc = "rows", !.name = "", !.entry = NoEntry, !.set = NotDownloaded,
              !.then = "", !.path = None]

\* let mut status = self.status.read().unwrap().clone(); match status { .. }
show_begin ==
    /\ ui.pc = "idle"
    /\ ui' = [UiIdle EXCEPT
                !.status = status,
                !.pc = IF status.t = "NotLoaded" THEN "set_loading"
                       ELSE IF status.t = "Loaded" /\ ~status.did_filter THEN "filter"
                       ELSE "pending"]
    /\ UNCHANGED <<live, status, db, filtered_entries, search_query, tags,
                   pending_update, select_clickpack, pending_clickpack_delete,
                   has_refreshed, dirs, loaders, tasks, upserted, server, budget, input>>

\* load_database: the thread it spawns starts at its request
load_database == [pc |-> "get_db", hiatus_url |-> ""]

\* Status::NotLoaded: both statuses become Loading, load_database spawns its thread
show_set_loading ==
    /\ ui.pc = "set_loading"
    /\ budget.loads > 0
    /\ budget' = [budget EXCEPT !.loads = @ - 1]
    /\ status' = Loading
    /\ loaders' = Append(loaders, load_database)
    /\ ui' = [ui EXCEPT !.status = Loading, !.pc = "pending"]
    /\ UNCHANGED <<live, db, filtered_entries, search_query, tags, pending_update,
                   select_clickpack, pending_clickpack_delete, has_refreshed, dirs,
                   tasks, upserted, server, input>>

\* Status::Loaded { did_filter: false }: self.update_filtered_entries()
show_filter ==
    /\ ui.pc = "filter"
    /\ filtered_entries' = update_filtered_entries(db.entries, tags, search_query)
    /\ has_refreshed' = IF live THEN TRUE ELSE has_refreshed
    /\ ui' = [ui EXCEPT !.pc = "did_filter"]
    /\ UNCHANGED <<live, status, db, search_query, tags, pending_update,
                   select_clickpack, pending_clickpack_delete, dirs, loaders, tasks,
                   upserted, server, budget, input>>

\* *self.status.write().unwrap() = Status::Loaded { did_filter: true }
show_did_filter ==
    /\ ui.pc = "did_filter"
    /\ status' = Loaded(TRUE)
    /\ ui' = [ui EXCEPT !.pc = "pending"]
    /\ UNCHANGED <<live, db, filtered_entries, search_query, tags, pending_update,
                   select_clickpack, pending_clickpack_delete, has_refreshed, dirs,
                   loaders, tasks, upserted, server, budget, input>>

\* update_pending_update: one turn of the for loop (the read guard of the queue
\* is taken with the first entry and dropped after the last)
drain_upsert(m, e) == insert(m, e.key, e.val)

\* A faulty drain that upserts into the view whether the key is there or not;
\* C6 has to tell it from drain_filtered.
drain_filtered_always(m, e) == insert(m, e.key, e.val)

drain_filtered(m, e) ==
    IF contains_key(m, e.key) THEN insert(m, e.key, e.val) ELSE m

drain_entry ==
    /\ ui.pc = "pending"
    /\ pending_update # <<>>
    /\ LET i == ui.i + 1
           e == pending_update[i]
       IN /\ db' = [db EXCEPT !.entries = drain_upsert(db.entries, e)]
          /\ filtered_entries' = drain_filtered(filtered_entries, e)
          /\ upserted' = upserted \cup {e.key}
          /\ ui' = IF i = Len(pending_update)
                   THEN [ui EXCEPT !.pc = "clear", !.i = 0]
                   ELSE [ui EXCEPT !.i = i]
    /\ UNCHANGED <<live, status, search_query, tags, pending_update,
                   select_clickpack, pending_clickpack_delete, has_refreshed, dirs,
                   loaders, tasks, server, budget, input>>

\* update_pending_update: the queue was empty, is_empty stays true
drain_empty ==
    /\ ui.pc = "pending"
    /\ pending_update = <<>>
    /\ ui' = AfterPending(ui, pending_clickpack_delete)
    /\ UNCHANGED <<live, status, db, filtered_entries, search_query, tags,
                   pending_update, select_clickpack, pending_clickpack_delete,
                   has_refreshed, dirs, loaders, tasks, upserted, server, budget, input>>

\* if !is_empty { self.pending_update.write().unwrap().clear(); }
drain_clear ==
    /\ ui.pc = "clear"
    /\ pending_update' = <<>>
    /\ upserted' = {}
    /\ ui' = AfterPending(ui, pending_clickpack_delete)
    /\ UNCHANGED <<live, status, db, filtered_entries, search_query, tags,
                   select_clickpack, pending_clickpack_delete, has_refreshed, dirs,
                   loaders, tasks, server, budget, input>>

\* for path in self.pending_clickpack_delete.drain(..) { remove_dir_all(&path) }
process_deletes ==
    /\ ui.pc = "deletes"
    /\ dirs' = dirs \ {pending_clickpack_delete[i] : i \in DOMAIN pending_clickpack_delete}
    /\ pending_clickpack_delete' = <<>>
    /\ ui' = AfterDeletes(ui)
    /\ UNCHANGED <<live, status, db, filtered_entries, search_query, tags,
                   pending_update, select_clickpack, has_refreshed, loaders, tasks,
                   upserted, server, budget, input>>

-----------------------------------------------------------------------------
(* show_table: the header, the rows (manage_row), the footer.  A frame      *)
(* carries at most one user event (ui.clicked); the automatic selection of  *)
(* a Downloaded { do_select: true } row is no user event.  Rows that are    *)
(* drawn with nothing clicked, or scrolled out of view, are passed over.    *)

Recomputed == update_filtered_entries(db.entries, tags, search_query)

\* if ui.add(textedit).changed() { self.update_filtered_entries(); }
search_changed ==
    /\ ui.pc = "table"
    /\ budget.edits > 0
    /\ budget' = [budget EXCEPT !.edits = @ - 1]
    /\ \E q \in UiQueries :
        /\ q # search_query
        /\ search_query' = q
        /\ filtered_entries' = update_filtered_entries(db.entries, tags, q)
        /\ ui' = ToRows(ui, Len(filtered_entries'), TRUE)
    /\ UNCHANGED <<live, status, db, tags, pending_update, select_clickpack,
                   pending_clickpack_delete, has_refreshed, dirs, loaders, tasks,
                   upserted, server, input>>

\* refresh_button, in the header
refresh_button ==
    /\ ui.pc = "table"
    /\ budget.loads > 0
    /\ status' = NotLoaded
    /\ ui' = ToRows(ui, Len(filtered_entries), TRUE)
    /\ UNCHANGED <<live, db, filtered_entries, search_query, tags, pending_update,
                   select_clickpack, pending_clickpack_delete, has_refreshed, dirs,
                   loaders, tasks, upserted, server, budget, input>>

\* the two checkboxes of the tags combo box
toggle_tag ==
    /\ ui.pc = "table"
    /\ budget.edits > 0
    /\ budget' = [budget EXCEPT !.edits = @ - 1]
    /\ \/ tags' = [tags EXCEPT !.noise = ~tags.noise]
       \/ tags' = [tags EXCEPT !.downloaded = ~tags.downloaded]
    /\ filtered_entries' = update_filtered_entries(db.entries, tags', search_query)
    /\ ui' = ToRows(ui, Len(filtered_entries'), TRUE)
    /\ UNCHANGED <<live, status, db, search_query, pending_update, select_clickpack,
                   pending_clickpack_delete, has_refreshed, dirs, loaders, tasks,
                   upserted, server, input>>

\* the rows the closure may still be called for in this frame
InTable == ui.pc \in {"table", "rows"}
NRows == IF ui.pc = "table" THEN Len(filtered_entries) ELSE ui.n_rows
RowsLeft ==
    {r \in 1..Len(filtered_entries) :
        r <= NRows /\ r > (IF ui.pc = "table" THEN 0 ELSE ui.row)}

\* (cfg!(not(feature = "live")) && do_select): the row selects itself
AutoSelects(entry) ==
    ~live /\ entry.dwn_status.t = "Downloaded" /\ entry.dwn_status.do_select

\* the locals of manage_row(ui, entry, name, ..) for row r
ManageRow(r) ==
    [ui EXCEPT !.row = r, !.n_rows = NRows, !.name = filtered_entries[r].key,
               !.entry = filtered_entries[r].val]

\* "Download" (not live): pick_folder() gives None, or a folder and the
\* entry is set Downloading
click_download ==
    /\ InTable /\ ~ui.clicked /\ ~live
    /\ budget.starts > 0
    /\ \E r \in RowsLeft :
        /\ filtered_entries[r].val.dwn_status.t = "NotDownloaded"
        /\ \/ ui' = [RowDone(ManageRow(r)) EXCEPT !.clicked = TRUE]
           \/ ui' = [ManageRow(r) EXCEPT !.pc = "set_status", !.clicked = TRUE,
                        !.set = Downloading, !.then = "download",
                        !.path = Some(PickedPath)]
    /\ UNCHANGED <<live, status, db, filtered_entries, search_query, tags,
                   pending_update, select_clickpack, pending_clickpack_delete,
                   has_refreshed, dirs, loaders, tasks, upserted, server, budget, input>>

\* A faulty destination that takes the first name whether it exists or not;
\* C11 has to tell it from free_path.
free_path_first(name, k, existing) == AutoPath(name, k)

\* while path.try_exists() { new_name += "_"; .. }
RECURSIVE free_path(_, _, _)
free_path(name, k, existing) ==
    IF AutoPath(name, k) \in existing THEN free_path(name, k + 1, existing)
    ELSE AutoPath(name, k)

\* "Select" (live: "Download") on a NotDownloaded row: the automatic destination
click_select_download ==
    /\ InTable /\ ~ui.clicked
    /\ budget.starts > 0
    /\ \E r \in RowsLeft :
        /\ filtered_entries[r].val.dwn_status.t = "NotDownloaded"
        /\ ui' = [ManageRow(r) EXCEPT !.pc = "set_status", !.clicked = TRUE,
                     !.set = Downloading, !.then = "auto"]
    /\ UNCHANGED <<live, status, db, filtered_entries, search_query, tags,
                   pending_update, select_clickpack, pending_clickpack_delete,
                   has_refreshed, dirs, loaders, tasks, upserted, server, budget, input>>

\* "Select" on a Downloaded row, clicked or (not live) taken by do_select
select_row ==
    /\ InTable
    /\ \E r \in RowsLeft :
        LET st == filtered_entries[r].val.dwn_status
            auto == AutoSelects(filtered_entries[r].val)
        IN /\ st.t = "Downloaded"
           /\ (~ui.clicked \/ auto)
           /\ IF st.do_select
              THEN /\ ui' = [ManageRow(r) EXCEPT
                                !.pc = "set_status",
                                !.clicked = ui.clicked \/ ~auto,
                                !.set = Downloaded(st.path, FALSE),
                                !.then = "select", !.path = Some(st.path)]
                   /\ UNCHANGED select_clickpack
              ELSE /\ select_clickpack' = Some(st.path)
                   /\ ui' = [RowDone(ManageRow(r)) EXCEPT !.clicked = TRUE]
    /\ UNCHANGED <<live, status, db, filtered_entries, search_query, tags,
                   pending_update, pending_clickpack_delete, has_refreshed, dirs,
                   loaders, tasks, upserted, server, budget, input>>

\* "Delete" (live) on a Downloaded row
click_delete ==
    /\ InTable /\ ~ui.clicked /\ live
    /\ \E r \in RowsLeft :
        /\ filtered_entries[r].val.dwn_status.t = "Downloaded"
        /\ pending_clickpack_delete' =
               Append(pending_clickpack_delete, filtered_entries[r].val.dwn_status.path)
        /\ ui' = [ManageRow(r) EXCEPT !.pc = "set_status", !.clicked = TRUE,
                     !.set = NotDownloaded, !.then = "delete"]
    /\ UNCHANGED <<live, status, db, filtered_entries, search_query, tags,
                   pending_update, select_clickpack, has_refreshed, dirs, loaders,
                   tasks, upserted, server, budget, input>>

\* set_status!: self.db.write().unwrap().entries.get_mut(&name).unwrap()
\*                  .dwn_status = $status;   (a missing name panics)
set_dwn_status(entries, name, st) ==
    [entries EXCEPT ![IndexOf(entries, name)].val.dwn_status = st]

set_status_write ==
    /\ ui.pc = "set_status"
    /\ IF contains_key(db.entries, ui.name)
       THEN /\ db' = [db EXCEPT !.entries = set_dwn_status(db.entries, ui.name, ui.set)]
            /\ ui' = [ui EXCEPT !.pc = "refilter"]
       ELSE /\ ui' = [UiIdle EXCEPT !.pc = "panicked"]
            /\ UNCHANGED db
    /\ UNCHANGED <<live, status, filtered_entries, search_query, tags,
                   pending_update, select_clickpack, pending_clickpack_delete,
                   has_refreshed, dirs, loaders, tasks, upserted, server, budget, input>>

\* set_status!: self.update_filtered_entries(); and what follows it in the arm
set_status_refilter ==
    /\ ui.pc = "refilter"
    /\ filtered_entries' = Recomputed
    /\ IF ui.then = "select"
       THEN /\ select_clickpack' = ui.path
            /\ ui' = RowDone(ui)
       ELSE /\ UNCHANGED select_clickpack
            /\ ui' = IF ui.then = "delete" THEN RowDone(ui)
                     ELSE [ui EXCEPT !.pc = "spawn"]
    /\ UNCHANGED <<live, status, db, search_query, tags, pending_update,
                   pending_clickpack_delete, has_refreshed, dirs, loaders, tasks,
                   upserted, server, budget, input>>

\* download_entry: the thread it spawns starts at its request
download_entry(entry, name, path, do_select, hiatus_url) ==
    [pc |-> "fetch", entry |-> entry, name |-> name, path |-> path,
     do_select |-> do_select, hiatus_url |-> hiatus_url]

\* the rest of the click: the destination, db.read().hiatus, download_entry
spawn_download ==
    /\ ui.pc = "spawn"
    /\ budget' = [budget EXCEPT !.starts = @ - 1]
    /\ LET path == IF ui.then = "auto" THEN free_path(ui.name, 0, dirs)
                   ELSE ui.path[1]
       IN /\ dirs' = IF ui.then = "auto" THEN dirs \cup {path} ELSE dirs
          /\ tasks' = Append(tasks, download_entry(ui.entry, ui.name, path,
                                                   ui.then = "auto", db.hiatus))
    /\ ui' = RowDone(ui)
    /\ UNCHANGED <<live, status, db, filtered_entries, search_query, tags,
                   pending_update, select_clickpack, pending_clickpack_delete,
                   has_refreshed, loaders, upserted, server, input>>

\* under the table, if self.filtered_entries.is_empty(): "Clear tags"
clear_tags ==
    /\ InTable /\ ~ui.clicked
    /\ filtered_entries = <<>>
    /\ tags' = TagsDefault
    /\ filtered_entries' = update_filtered_entries(db.entries, TagsDefault, search_query)
    /\ ui' = UiIdle
    /\ UNCHANGED <<live, status, db, search_query, pending_update, select_clickpack,
                   pending_clickpack_delete, has_refreshed, dirs, loaders, tasks,
                   upserted, server, budget, input>>

\* under the table, if self.filtered_entries.is_empty(): refresh_button
refresh_button_empty ==
    /\ InTable /\ ~ui.clicked
    /\ filtered_entries = <<>>
    /\ budget.loads > 0
    /\ status' = NotLoaded
    /\ ui' = UiIdle
    /\ UNCHANGED <<live, db, filtered_entries, search_query, tags, pending_update,
                   select_clickpack, pending_clickpack_delete, has_refreshed, dirs,
                   loaders, tasks, upserted, server, budget, input>>

\* show() returns
show_end ==
    /\ InTable
    /\ ui' = UiIdle
    /\ UNCHANGED <<live, status, db, filtered_entries, search_query, tags,
                   pending_update, select_clickpack, pending_clickpack_delete,
                   has_refreshed, dirs, loaders, tasks, upserted, server, budget, input>>

-----------------------------------------------------------------------------
(* The host's other entry point of the panel. *)

\* mark_downloaded(name, path, downloaded)   (feature "live")
mark_status(path, downloaded) ==
    IF downloaded THEN Downloaded(path, FALSE) ELSE NotDownloaded

mark_entries(m, name, st) ==
    IF contains_key(m, name) THEN set_dwn_status(m, name, st) ELSE m

mark_downloaded ==
    /\ ui.pc = "idle" /\ live
    /\ budget.marks > 0
    /\ budget' = [budget EXCEPT !.marks = @ - 1]
    /\ \E name \in CatalogNames, downloaded \in BOOLEAN :
        LET st == mark_status(AutoPath(name, 0), downloaded)
        IN /\ db' = [db EXCEPT !.entries = mark_entries(db.entries, name, st)]
           /\ filtered_entries' = mark_entries(filtered_entries, name, st)
    /\ UNCHANGED <<live, status, search_query, tags, pending_update,
                   select_clickpack, pending_clickpack_delete, has_refreshed, dirs,
                   ui, loaders, tasks, upserted, server, input>>

-----------------------------------------------------------------------------
(* The thread of load_database, which goes on into load_hiatus. *)

\* the sequence of threads without its i-th, which has returned
Without(s, i) == SubSeq(s, 1, i - 1) \o SubSeq(s, i + 1, Len(s))

UnchangedByLoader ==
    UNCHANGED <<live, filtered_entries, search_query, tags, pending_update,
                select_clickpack, pending_clickpack_delete, has_refreshed, dirs, ui,
                tasks, upserted, server, budget, input>>

\* A faulty failure path that leaves an empty Database behind;
\* C16 has to tell it from load_database_err.
load_database_err_wipes(i) ==
    /\ loaders[i].pc = "get_db"
    /\ \/ status' = StError("GET failed")
       \/ status' = StError("parse failed")
    /\ loaders' = Without(loaders, i)
    /\ db' = DatabaseDefault
    /\ UnchangedByLoader

\* req_fn(DATABASE_URL, false) fails, or serde_json::from_slice(&body) does
load_database_err(i) ==
    /\ loaders[i].pc = "get_db"
    /\ \/ status' = StError("GET failed")
       \/ status' = StError("parse failed")
    /\ loaders' = Without(loaders, i)
    /\ UNCHANGED db
    /\ UnchangedByLoader

\* *db.write().unwrap() = <the parsed body>; hiatus_url = db.read().hiatus
load_database_ok(i) ==
    /\ loaders[i].pc = "get_db"
    /\ \E body \in Catalogs(server) : db' = body
    /\ loaders' = [loaders EXCEPT ![i] = [pc |-> "set_loaded", hiatus_url |-> db'.hiatus]]
    /\ UNCHANGED status
    /\ UnchangedByLoader

\* *status.write().unwrap() = Status::Loaded { did_filter: false }
load_database_loaded(i) ==
    /\ loaders[i].pc = "set_loaded"
    /\ status' = Loaded(FALSE)
    /\ loaders' = [loaders EXCEPT ![i].pc = "get_hiatus"]
    /\ UNCHANGED db
    /\ UnchangedByLoader

\* A faulty failure path that shows the failure as a catalog error;
\* C17 has to tell it from load_hiatus_err.
load_hiatus_err_surfaces(i) ==
    /\ loaders[i].pc = "get_hiatus"
    /\ loaders' = Without(loaders, i)
    /\ status' = StError("GET failed")
    /\ UNCHANGED db
    /\ UnchangedByLoader

\* load_hiatus: the GET fails or its body does not parse (logged, nothing else)
load_hiatus_err(i) ==
    /\ loaders[i].pc = "get_hiatus"
    /\ loaders' = Without(loaders, i)
    /\ UNCHANGED <<status, db>>
    /\ UnchangedByLoader

\* load_hiatus: the merge under db.write(), then, the guard still held,
\* *status.write().unwrap() = Status::Loaded { did_filter: false }
load_hiatus_merge(i, downloads) ==
    /\ loaders[i].pc = "get_hiatus"
    /\ db' = [db EXCEPT !.entries = merge_downloads(db.entries, downloads)]
    /\ status' = Loaded(FALSE)
    /\ loaders' = Without(loaders, i)
    /\ UNCHANGED <<live, filtered_entries, search_query, tags, pending_update,
                   select_clickpack, pending_clickpack_delete, has_refreshed, dirs,
                   ui, tasks, upserted, server, budget>>

load_hiatus_ok(i) ==
    /\ \E downloads \in Responses : load_hiatus_merge(i, downloads)
    /\ UNCHANGED input

-----------------------------------------------------------------------------
(* The thread of download_entry. *)

UnchangedByTask ==
    UNCHANGED <<live, status, db, filtered_entries, search_query, tags,
                select_clickpack, pending_clickpack_delete, has_refreshed, ui,
                loaders, server, budget, input>>

Outcomes == {"ok", "extract_err", "get_err"}

\* A faulty report that always asks for the selection;
\* C5 has to tell it from report_status.
report_status_selects(outcome, path, do_select) ==
    IF outcome = "ok" THEN Downloaded(path, TRUE)
    ELSE IF outcome = "extract_err" THEN DlError("extract failed")
    ELSE DlError("GET failed")

\* the status the thread reports: by the outcome of req_fn(&entry.url, false)
\* and of zip_extract::extract(.., &path, true)
report_status(outcome, path, do_select) ==
    IF outcome = "ok" THEN Downloaded(path, do_select)
    ELSE IF outcome = "extract_err" THEN DlError("extract failed")
    ELSE DlError("GET failed")

report(task, outcome) ==
    [task.entry EXCEPT !.dwn_status = report_status(outcome, task.path, task.do_select)]

\* the request and the extraction (into path, which extract creates if it is
\* missing), then pending_update.write().unwrap().insert(name.clone(), entry)
download_report(i) ==
    /\ tasks[i].pc = "fetch"
    /\ ~PendingReadLocked
    /\ \E outcome \in Outcomes :
        /\ pending_update' =
               insert(pending_update, tasks[i].name, report(tasks[i], outcome))
        /\ dirs' = IF outcome = "ok" THEN dirs \cup {tasks[i].path} ELSE dirs
    /\ upserted' = upserted \ {tasks[i].name}
    /\ tasks' = [tasks EXCEPT ![i].pc = "inc"]
    /\ UnchangedByTask

\* A faulty end of the thread that takes its result back out of the queue;
\* C19 has to tell it from download_inc.
download_inc_unqueues(i) ==
    /\ tasks[i].pc = "inc"
    /\ tasks' = Without(tasks, i)
    /\ pending_update' = SelectSeq(pending_update, LAMBDA e : e.key # tasks[i].name)
    /\ UNCHANGED <<upserted, dirs>>
    /\ UnchangedByTask

\* req_fn(&inc_endpoint, true): its result is logged
download_inc(i) ==
    /\ tasks[i].pc = "inc"
    /\ tasks' = Without(tasks, i)
    /\ UNCHANGED <<pending_update, upserted, dirs>>
    /\ UnchangedByTask

-----------------------------------------------------------------------------
(* The panel and its threads. *)

\* ClickpackDb::default(), in either build; the picker's folder exists
Init ==
    /\ live \in BOOLEAN
    /\ status = NotLoaded
    /\ db = DatabaseDefault
    /\ filtered_entries = <<>>
    /\ search_query = EmptyQuery
    /\ tags = TagsDefault
    /\ pending_update = <<>>
    /\ select_clickpack = None
    /\ pending_clickpack_delete = <<>>
    /\ has_refreshed = FALSE
    /\ dirs = {PickedPath}
    /\ ui = UiIdle
    /\ loaders = <<>>
    /\ tasks = <<>>
    /\ upserted = {}
    /\ budget \in Budgets
    /\ server = budget.server
    /\ input = <<>>

Show ==
    \/ show_begin \/ show_set_loading \/ show_filter \/ show_did_filter
    \/ drain_entry \/ drain_empty \/ drain_clear \/ process_deletes
    \/ search_changed \/ refresh_button \/ toggle_tag
    \/ click_download \/ click_select_download \/ select_row
    \/ click_delete \/ set_status_write \/ set_status_refilter \/ spawn_download
    \/ clear_tags \/ refresh_button_empty \/ show_end

Loader ==
    \E i \in DOMAIN loaders :
        \/ load_database_err(i) \/ load_database_ok(i) \/ load_database_loaded(i)
        \/ load_hiatus_err(i) \/ load_hiatus_ok(i)

Task ==
    \E i \in DOMAIN tasks : download_report(i) \/ download_inc(i)

Next == Show \/ Loader \/ Task \/ mark_downloaded

Spec == Init /\ [][Next]_vars

-----------------------------------------------------------------------------
(* Properties of the running panel (Spec). *)

\* the steps of update_pending_update, told by what they do to ui
DrainStep == ui.pc = "pending" /\ pending_update # <<>> /\ ui' # ui
ClearStep == ui.pc = "clear" /\ ui' # ui
Draining == pending_update[ui.i + 1]

\* C1: every result a download thread inserts into the pending-update queue is
\* upserted into the catalog exactly once: clear() removes no result that this
\* cycle has not upserted, and no result is upserted twice before it is removed.
C1_DrainedExactlyOnce ==
    [][ /\ ClearStep => Keys(pending_update) \subseteq upserted
        /\ DrainStep => Draining.key \notin upserted ]_vars

\* some thread is still to report for name, or its report waits in the queue,
\* or the click that set Downloading is about to spawn the thread
OutcomePending(name) ==
    \/ \E i \in DOMAIN tasks : tasks[i].name = name /\ tasks[i].pc = "fetch"
    \/ contains_key(pending_update, name)
    \/ ui.pc \in {"refilter", "spawn"} /\ ui.name = name /\ ui.set = Downloading

\* C2: a catalog entry that is Downloading goes on to Downloaded or Error.  In
\* a finite run: while an entry is Downloading, the report that will end it is
\* still to come (a thread that has not reported, or a queued report); with
\* neither, no update cycle ever changes the status again.
C2_DownloadingGetsOutcome ==
    \A i \in DOMAIN db.entries :
        db.entries[i].val.dwn_status = Downloading => OutcomePending(db.entries[i].key)

\* C3: no two download threads that have yet to report are for the same name.
C3_OneTaskPerName ==
    \A i, j \in DOMAIN tasks :
        (i # j /\ tasks[i].pc = "fetch" /\ tasks[j].pc = "fetch")
            => tasks[i].name # tasks[j].name

\* the edges of the download status
StatusEdge(old, new) ==
    \/ old = new
    \/ old = NotDownloaded /\ new = Downloading
    \/ old = Downloading /\ new.t \in {"Downloaded", "Error"}
    \/ old.t = "Downloaded" /\ new = NotDownloaded
    \/ old.t = "Downloaded" /\ old.do_select /\ new = Downloaded(old.path, FALSE)

\* C4: in every step of the panel and its threads, the status of an entry that
\* stays in the catalog is unchanged or moves along one of the edges
\* NotDownloaded -> Downloading, Downloading -> Downloaded | Error,
\* Downloaded -> NotDownloaded, Downloaded{true} -> Downloaded{false}.
\* (Stated for the build without the feature "live", in which the host has no
\* mark_downloaded to set a status with.)
C4_StatusEdgesOnly ==
    [][ ~live =>
        \A name \in Keys(db.entries) \cap Keys(db'.entries) :
            StatusEdge(get(db.entries, name).dwn_status,
                       get(db'.entries, name).dwn_status) ]_vars

\* the steps of a download thread and of the click that spawns it
SpawnStep == Len(tasks') = Len(tasks) + 1
ReportStep(i) ==
    /\ Len(tasks') = Len(tasks)
    /\ tasks[i].pc = "fetch" /\ tasks'[i].pc = "inc"
Spawned == tasks'[Len(tasks')]

C6_DrainKeepsFilteredKeys ==
    [][ DrainStep =>
            /\ contains_key(db'.entries, Draining.key)
            /\ get(db'.entries, Draining.key) = Draining.val
            /\ Keys(filtered_entries') = Keys(filtered_entries)
            /\ Len(filtered_entries') = Len(filtered_entries)
            /\ \A r \in DOMAIN filtered_entries :
                   filtered_entries'[r] =
                       IF filtered_entries[r].key = Draining.key
                       THEN [key |-> Draining.key, val |-> Draining.val]
                       ELSE filtered_entries[r]
      ]_vars

\* C6 at work: this cycle has upserted a Downloaded x that the view, which
\* shows other rows, does not hold
C6_Witness ==
    /\ ui.pc = "clear"
    /\ filtered_entries # <<>>
    /\ \E x \in upserted :
        /\ ~contains_key(filtered_entries, x)
        /\ contains_key(db.entries, x)
        /\ get(db.entries, x).dwn_status.t = "Downloaded"

-----------------------------------------------------------------------------
(* update_filtered_entries and the merge of load_hiatus on their own: the   *)
(* panel starts with any catalog over the keys "a", "b", "c" (in that       *)
(* order), any tags and any search string, and takes the one step.          *)

NameSeq == <<"a", "b", "c">>

\* the cached string of a count: "" until a merge has set it
downloads_str(n) == IF n = 0 THEN "" ELSE ToString(n)

EntryWith(has_noise, st, n) ==
    [Entry(has_noise, "url") EXCEPT !.dwn_status = st, !.downloads = n,
                                    !.downloads_str = downloads_str(n)]

CatalogsOver(vals) ==
    UNION { { [i \in 1..n |-> [key |-> NameSeq[i], val |-> f[i]]] : f \in [1..n -> vals] }
            : n \in 0..Len(NameSeq) }

AllStatuses ==
    {NotDownloaded, Downloading, Downloaded(PickedPath, FALSE), DlError("GET failed")}

FilterCatalogs ==
    CatalogsOver({EntryWith(h, st, n) : h \in BOOLEAN, st \in AllStatuses, n \in 0..MaxCount})

SearchCatalogs ==
    CatalogsOver({EntryWith(h, st, n) : h \in BOOLEAN,
                  st \in {NotDownloaded, Downloaded(PickedPath, FALSE)},
                  n \in 0..MaxCount})

MergeCatalogs ==
    CatalogsOver({EntryWith(TRUE, st, n) :
                  st \in {NotDownloaded, Downloaded(PickedPath, TRUE)}, n \in 0..MaxCount})

AllTags == [noise : BOOLEAN, downloaded : BOOLEAN]

NoBudget == [server |-> "fixed", loads |-> 0, starts |-> 0, edits |-> 0, marks |-> 0]

\* a panel about to take the step at ui.pc, nothing else going on
InitAt(pc, catalogs, queries, threads) ==
    /\ live = FALSE
    /\ status = Loaded(FALSE)
    /\ db \in {[CatalogV1 EXCEPT !.entries = c] : c \in catalogs}
    /\ filtered_entries = <<>>
    /\ search_query \in queries
    /\ tags \in AllTags
    /\ pending_update = <<>>
    /\ select_clickpack = None
    /\ pending_clickpack_delete = <<>>
    /\ has_refreshed = FALSE
    /\ dirs = {PickedPath}
    /\ ui = [UiIdle EXCEPT !.pc = pc, !.status = Loaded(FALSE)]
    /\ loaders = threads
    /\ tasks = <<>>
    /\ upserted = {}
    /\ budget = NoBudget
    /\ server = "fixed"
    /\ input = <<>>

\* show() at Status::Loaded { did_filter: false }, no search string
InitFilter == InitAt("filter", FilterCatalogs, {EmptyQuery}, <<>>)

SpecFilter == InitFilter /\ [][show_filter]_vars

\* show() at Status::Loaded { did_filter: false }, a search string typed
InitSearch == InitAt("filter", SearchCatalogs, Queries, <<>>)

SpecSearch == InitSearch /\ [][show_filter]_vars

\* a loader that has its popularity response; input keeps what it started from
InitMerge ==
    /\ InitAt("idle", MergeCatalogs, {EmptyQuery},
              << [pc |-> "get_hiatus", hiatus_url |-> "hiatus"] >>)
    /\ tags = TagsDefault

merge_applied ==
    \E downloads \in Responses :
        /\ loaders # <<>>
        /\ load_hiatus_merge(1, downloads)
        /\ input' = <<db.entries, downloads>>

SpecMerge == InitMerge /\ [][merge_applied]_vars

-----------------------------------------------------------------------------
(* Properties of the merge (SpecMerge). *)

\* the count the response has for name, 0 where it has none
CountFor(resp, name) == IF name \in DOMAIN resp THEN resp[name] ELSE 0

\* C7: after the merge of a response into a catalog, every catalog entry whose
\* name has a nonzero count in the response has that count as its downloads,
\* every other entry keeps its downloads, and the catalog has the keys it had,
\* in the order it had them (names of the response that are no key are ignored).
C7_PopularityMerge ==
    input # <<>> =>
        LET before == input[1]
            resp == input[2]
            after == db.entries
        IN /\ Len(after) = Len(before)
           /\ \A i \in DOMAIN before :
                /\ after[i].key = before[i].key
                /\ after[i].val.downloads =
                       IF CountFor(resp, before[i].key) # 0
                       THEN CountFor(resp, before[i].key)
                       ELSE before[i].val.downloads

\* C7 at work: "a" takes a new count, "b" keeps a nonzero count against a
\* count of zero, and the response's "c" is no key of the catalog
C7_Witness ==
    /\ input # <<>>
    /\ Keys(input[1]) = {"a", "b"}
    /\ DOMAIN input[2] = {"a", "b", "c"}
    /\ input[2]["a"] # 0 /\ input[2]["a"] # get(input[1], "a").downloads
    /\ input[2]["b"] = 0 /\ get(input[1], "b").downloads # 0
    /\ input[2]["c"] # 0
    /\ get(db.entries, "a").downloads = input[2]["a"]

-----------------------------------------------------------------------------
(* Properties of the recomputed view (SpecFilter, SpecSearch). *)

\* update_filtered_entries has run
Refiltered == ui.pc = "did_filter"

\* v satisfies every active tag
SatisfiesTags(v) ==
    /\ tags.noise => v.has_noise
    /\ tags.downloaded => v.dwn_status.t = "Downloaded"

\* C8: with an empty search string the recomputed view holds exactly the
\* catalog entries that satisfy all active tags, each once and with the
\* catalog's value; with no tag active these are all the catalog entries.
C8_TagFilterExact ==
    (Refiltered /\ search_query.is_empty) =>
        /\ \A i \in DOMAIN db.entries :
               SatisfiesTags(db.entries[i].val) <=>
                   \E r \in DOMAIN filtered_entries : filtered_entries[r] = db.entries[i]
        /\ \A r \in DOMAIN filtered_entries :
               \E i \in DOMAIN db.entries : filtered_entries[r] = db.entries[i]
        /\ Len(filtered_entries) = Cardinality(Keys(filtered_entries))
        /\ ~has_any(tags) => Keys(filtered_entries) = Keys(db.entries)

\* C8 at work: both tags are active; an entry with both properties is kept,
\* an entry with only one of them is not
C8_Witness ==
    /\ Refiltered /\ search_query.is_empty
    /\ tags.noise /\ tags.downloaded
    /\ filtered_entries # <<>>
    /\ \E i \in DOMAIN db.entries :
        /\ db.entries[i].val.has_noise
        /\ db.entries[i].val.dwn_status.t # "Downloaded"
        /\ ~contains_key(filtered_entries, db.entries[i].key)
    /\ \E i \in DOMAIN db.entries :
        /\ ~db.entries[i].val.has_noise
        /\ db.entries[i].val.dwn_status.t = "Downloaded"
        /\ ~contains_key(filtered_entries, db.entries[i].key)

\* C9: with an empty search string the rows of the recomputed view have
\* non-increasing downloads, and rows of equal downloads are in the order
\* their keys have in the catalog.
C9_SortedByDownloads ==
    (Refiltered /\ search_query.is_empty) =>
        \A r1, r2 \in DOMAIN filtered_entries :
            r1 < r2 =>
                /\ filtered_entries[r1].val.downloads >= filtered_entries[r2].val.downloads
                /\ filtered_entries[r1].val.downloads = filtered_entries[r2].val.downloads
                     => IndexOf(db.entries, filtered_entries[r1].key)
                            < IndexOf(db.entries, filtered_entries[r2].key)

\* C9 at work: "b" has moved in front of "a" and "c", which tie and keep
\* their order
C9_Witness ==
    /\ Refiltered /\ search_query.is_empty
    /\ Len(filtered_entries) = Len(NameSeq)
    /\ filtered_entries[1].key = "b"
    /\ filtered_entries[2].key = "a"
    /\ filtered_entries[2].val.downloads = filtered_entries[Len(NameSeq)].val.downloads

\* the score of a key that matches
ScoreOf(k) == unwrap_or(search_query.score[k], 0)

\* C10: with a search string, every row of the recomputed view has a key that
\* matches it and no catalog key that does not match is in the view, whatever
\* the tags are; the rows have non-increasing score, rows of equal score have
\* non-increasing downloads, and rows equal in both are in catalog order.
C10_SearchFilterAndOrder ==
    (Refiltered /\ ~search_query.is_empty) =>
        /\ \A r \in DOMAIN filtered_entries :
               search_query.score[filtered_entries[r].key] # None
        /\ \A i \in DOMAIN db.entries :
               search_query.score[db.entries[i].key] = None
                   => ~contains_key(filtered_entries, db.entries[i].key)
        /\ \A r1, r2 \in DOMAIN filtered_entries :
            r1 < r2 =>
                LET e1 == filtered_entries[r1]
                    e2 == filtered_entries[r2]
                IN /\ ScoreOf(e1.key) >= ScoreOf(e2.key)
                   /\ ScoreOf(e1.key) = ScoreOf(e2.key)
                        => /\ e1.val.downloads >= e2.val.downloads
                           /\ e1.val.downloads = e2.val.downloads
                                => IndexOf(db.entries, e1.key) < IndexOf(db.entries, e2.key)

\* C10 at work: "a" does not match and is left out though it satisfies the
\* tags; "c" scores more than "b" and comes first
C10_Witness ==
    /\ Refiltered /\ ~search_query.is_empty
    /\ Keys(db.entries) = {"a", "b", "c"}
    /\ search_query.score["a"] = None
    /\ SatisfiesTags(get(db.entries, "a"))
    /\ Len(filtered_entries) >= 2
    /\ filtered_entries[1].key = "c"
    /\ filtered_entries[2].key = "b"
    /\ ScoreOf("c") > ScoreOf("b")
    /\ get(db.entries, "b").downloads > get(db.entries, "c").downloads

-----------------------------------------------------------------------------
(* The automatic destination on its own (SpecPath): a click on "Select" of  *)
(* the row of n has set n Downloading and is about to choose the directory, *)
(* with any directories n, n_, .. of any entries on disk.                   *)

AutoDirs == {AutoPath(n, k) : n \in Names, k \in 0..MaxSuffix}

ClickedCatalog(n) ==
    [i \in 1..Len(NameSeq) |->
        [key |-> NameSeq[i],
         val |-> EntryWith(FALSE, IF NameSeq[i] = n THEN Downloading ELSE NotDownloaded, 0)]]

InitPath ==
    /\ live \in BOOLEAN
    /\ status = Loaded(TRUE)
    /\ \E n \in Names :
        /\ db = [CatalogV1 EXCEPT !.entries = ClickedCatalog(n)]
        /\ ui = [UiIdle EXCEPT !.pc = "spawn", !.status = Loaded(TRUE),
                    !.row = IndexOf(db.entries, n), !.n_rows = Len(NameSeq),
                    !.clicked = TRUE, !.name = n,
                    !.entry = EntryWith(FALSE, NotDownloaded, 0),
                    !.set = Downloading, !.then = "auto"]
    /\ filtered_entries = db.entries
    /\ search_query = EmptyQuery
    /\ tags = TagsDefault
    /\ pending_update = <<>>
    /\ select_clickpack = None
    /\ pending_clickpack_delete = <<>>
    /\ has_refreshed = live
    /\ dirs \in {d \cup {PickedPath} : d \in SUBSET AutoDirs}
    /\ loaders = <<>>
    /\ tasks = <<>>
    /\ upserted = {}
    /\ budget = [NoBudget EXCEPT !.starts = 1]
    /\ server = "fixed"
    /\ input = <<>>

SpecPath == InitPath /\ [][spawn_download]_vars

-----------------------------------------------------------------------------
(* Properties of the catalog status in the running panel (Spec). *)

\* C12: the catalog status leaves NotLoaded only to Loading, enters Error only
\* from Loading, and enters Loaded only from Loading (or stays Loaded, with
\* did_filter changed), in every step of the panel and its loader threads.
C12_StatusFollowsLoad ==
    [][ /\ (status.t = "NotLoaded" /\ status'.t # "NotLoaded") => status'.t = "Loading"
        /\ (status'.t = "Error" /\ status.t # "Error") => status.t = "Loading"
        /\ (status'.t = "Loaded" /\ status.t # "Loaded") => status.t = "Loading"
      ]_vars

\* show() issues the catalog fetch: load_database spawns its thread
FetchIssued ==
    /\ Len(loaders') = Len(loaders) + 1
    /\ loaders'[Len(loaders')] = load_database

\* C13: a refresh is not lost.  The request for a new fetch is the value
\* NotLoaded of the status and nothing else, so: the status stops being
\* NotLoaded only in the step of show() that issues the fetch, or when show()
\* has read NotLoaded already and is about to issue it.
C13_RefreshNotLost ==
    [][ (status.t = "NotLoaded" /\ status'.t # "NotLoaded")
            => (FetchIssued \/ ui.pc = "set_loading") ]_vars

\* C14: the update cycle writes Loaded{did_filter: true} over
\* Loaded{did_filter: false} only when the filtered view is the recompute of
\* the catalog as it is at that write: a merge (or a load) that has changed
\* the catalog since the recompute is not marked as filtered.
C14_RecomputeNotSkipped ==
    [][ (status = Loaded(FALSE) /\ status' = Loaded(TRUE))
            => filtered_entries = update_filtered_entries(db.entries, tags, search_query)
      ]_vars

\* a step of the table that is a user action on a row, the search box or the tags
TableAction ==
    \/ search_query' # search_query
    \/ tags' # tags
    \/ select_clickpack' # select_clickpack
    \/ Len(pending_clickpack_delete') > Len(pending_clickpack_delete)
    \/ ui'.pc = "set_status" /\ ui.pc # "set_status"

\* C15: in a cycle of show() that has read the status Error, no user action on
\* a row (download, select, delete), the search box or the tags is taken.
C15_ErrorBlocksTable ==
    [][ ui.status.t = "Error" => ~TableAction ]_vars

\* the thread of a load returns from its catalog request without a Database
LoadFailed(i) == loaders[i].pc = "get_db" /\ loaders' = Without(loaders, i)

\* the threads that are at, or still before, their popularity request
HiatusToCome(ls) == {j \in DOMAIN ls : ls[j].pc \in {"set_loaded", "get_hiatus"}}

\* C16: when the catalog GET fails or its body does not parse, the status
\* becomes Error with the message of the failure, the Database is what it was
\* before, and the thread ends there: it issues no popularity request.
C16_LoadFailureKeepsDatabase ==
    [][ /\ \A i \in DOMAIN loaders : LoadFailed(i) =>
              /\ status' \in {StError("GET failed"), StError("parse failed")}
              /\ db' = db
        /\ (status'.t = "Error" /\ status' # status) =>
              /\ db' = db
              /\ Len(loaders') = Len(loaders) - 1
              /\ Cardinality(HiatusToCome(loaders')) = Cardinality(HiatusToCome(loaders))
      ]_vars

\* C16 at work: a load has failed over a catalog that an earlier load had
\* brought, and the catalog is still there
C16_Witness ==
    /\ status.t = "Error"
    /\ loaders = <<>>
    /\ db.entries # <<>>
    /\ budget.loads = 0

-----------------------------------------------------------------------------
(* The failure of the popularity request on its own (SpecHiatus): a loader  *)
(* waits for the response over any catalog, whatever the status has become  *)
(* since the loader set it.                                                 *)

InitHiatus ==
    /\ live = FALSE
    /\ status \in {Loaded(FALSE), Loaded(TRUE), NotLoaded, Loading}
    /\ db \in {[CatalogV1 EXCEPT !.entries = c] : c \in MergeCatalogs}
    /\ filtered_entries = <<>>
    /\ search_query = EmptyQuery
    /\ tags = TagsDefault
    /\ pending_update = <<>>
    /\ select_clickpack = None
    /\ pending_clickpack_delete = <<>>
    /\ has_refreshed = FALSE
    /\ dirs = {PickedPath}
    /\ ui = UiIdle
    /\ loaders = << [pc |-> "get_hiatus", hiatus_url |-> "hiatus"] >>
    /\ tasks = <<>>
    /\ upserted = {}
    /\ budget = NoBudget
    /\ server = "fixed"
    /\ input = <<>>

hiatus_failed == loaders # <<>> /\ load_hiatus_err(1)

SpecHiatus == InitHiatus /\ [][hiatus_failed]_vars

\* C17: when the popularity GET fails or its body does not parse, the thread
\* ends with the status as it was (Loaded stays Loaded, it does not become
\* Error) and with the Database, so every entry, as it was.
C17_HiatusFailureChangesNothing ==
    [][ loaders' # loaders => (status' = status /\ db' = db) ]_vars

\* C17 at work: the request has failed; the status is Loaded and the catalog
\* has the counts of an earlier merge
C17_Witness ==
    /\ loaders = <<>>
    /\ status = Loaded(TRUE)
    /\ \E i \in DOMAIN db.entries : db.entries[i].val.downloads # 0

-----------------------------------------------------------------------------
(* Properties of the selection in the running panel (Spec). *)

\* name is Downloaded{do_select: true} in m
AsksSelection(m, name) ==
    /\ contains_key(m, name)
    /\ get(m, name).dwn_status.t = "Downloaded"
    /\ get(m, name).dwn_status.do_select

\* the step of manage_row that sets select_clickpack after set_status!
SelectStep == ui.pc = "refilter" /\ ui.then = "select" /\ ui' # ui

\* C18: do_select is consumed at most once.  When the row of an entry that is
\* Downloaded{do_select: true} has set select_clickpack, the entry is
\* Downloaded{do_select: false}, with the same path, in the catalog and in the
\* filtered view; and an entry comes to ask for the selection, in the catalog
\* or in the view, only by the drain of a download report for it.
C18_SelectionConsumedOnce ==
    [][ /\ SelectStep =>
              /\ select_clickpack' = ui.path
              /\ contains_key(db'.entries, ui.name)
              /\ get(db'.entries, ui.name).dwn_status = Downloaded(ui.path[1], FALSE)
              /\ contains_key(filtered_entries', ui.name)
              /\ get(filtered_entries', ui.name).dwn_status = Downloaded(ui.path[1], FALSE)
        /\ \A name \in Names :
              ( /\ ~(AsksSelection(db.entries, name) \/ AsksSelection(filtered_entries, name))
                /\ AsksSelection(db'.entries, name) \/ AsksSelection(filtered_entries', name) )
              => (DrainStep /\ Draining.key = name)
      ]_vars

-----------------------------------------------------------------------------
(* Properties of the download threads in the running panel (Spec). *)

\* the thread i makes its POST to <hiatus>/inc/<name> and returns
PostStep(i) == Len(tasks') = Len(tasks) - 1 /\ tasks' = Without(tasks, i)

\* C19: a download thread makes its one increment POST as its last step,
\* after it has put its result in the queue, whatever the result is: the
\* report step leaves the thread before its POST with its result queued; a
\* thread ends only by its POST; and the POST, failed or not, leaves the
\* queue, the catalog, the view and the catalog status as they are.
C19_OneIncrementAfterReport ==
    [][ /\ \A i \in DOMAIN tasks : ReportStep(i) =>
              /\ tasks' = [tasks EXCEPT ![i].pc = "inc"]
              /\ contains_key(pending_update', tasks[i].name)
              /\ get(pending_update', tasks[i].name).dwn_status.t \in {"Downloaded", "Error"}
        /\ Len(tasks') < Len(tasks) => \E i \in DOMAIN tasks : PostStep(i)
        /\ \A i \in DOMAIN tasks : PostStep(i) =>
              /\ tasks[i].pc = "inc"
              /\ tasks[i].hiatus_url = "hiatus"
              /\ UNCHANGED <<pending_update, db, filtered_entries, status>>
      ]_vars

\* C19 at work: a thread whose fetch or extraction failed has made its POST
\* and is gone; its Error report is in the queue
C19_Witness ==
    /\ tasks = <<>>
    /\ pending_update # <<>>
    /\ pending_update[1].val.dwn_status.t = "Error"

-----------------------------------------------------------------------------
(* The locks of the background threads (SpecLocks): load_hiatus taken one   *)
(* lock acquisition at a time, next to a download thread. A thread's pc     *)
(* tells which guards it holds. Spec takes the two acquisitions of          *)
(* load_hiatus as the one step load_hiatus_merge: nothing can read the      *)
(* Database between them, and a status write between them is overwritten    *)
(* all the same.                                                            *)

\* load_hiatus: the response has parsed; let mut db_lock = db.write().unwrap()
\* and the merge loop. db_lock lives to the end of the match arm.
hiatus_db_lock(i, downloads) ==
    /\ loaders[i].pc = "get_hiatus"
    /\ db' = [db EXCEPT !.entries = merge_downloads(db.entries, downloads)]
    /\ loaders' = [loaders EXCEPT ![i].pc = "db_lock"]
    /\ UNCHANGED status
    /\ UnchangedByLoader

\* *status.write().unwrap() = Status::Loaded { did_filter: false }, then the
\* end of the arm, where db_lock is dropped
hiatus_reload_sorting(i) ==
    /\ loaders[i].pc = "db_lock"
    /\ status' = Loaded(FALSE)
    /\ loaders' = Without(loaders, i)
    /\ UNCHANGED db
    /\ UnchangedByLoader

\* the guards of db and status a thread holds when it is at pc
Held(thread) == IF thread.pc = "db_lock" THEN {"db"} ELSE {}

\* the locks a thread's next step takes
Takes(thread) ==
    IF thread.pc \in {"get_db", "get_hiatus"} THEN {"db"}
    ELSE IF thread.pc \in {"set_loaded", "db_lock"} THEN {"status"}
    ELSE IF thread.pc = "fetch" THEN {"pending_update"}
    ELSE {}

\* whether a thread's next step calls req_fn
Requests(thread) == thread.pc \in {"get_db", "get_hiatus", "fetch", "inc"}

\* a loader with its popularity response to come, over any catalog and any
\* status; a download of entry a running or not
InitLocks ==
    /\ live = FALSE
    /\ status \in {Loaded(FALSE), Loaded(TRUE), NotLoaded, Loading}
    /\ db \in {[CatalogV1 EXCEPT !.entries = c] : c \in MergeCatalogs}
    /\ filtered_entries = <<>>
    /\ search_query = EmptyQuery
    /\ tags = TagsDefault
    /\ pending_update = <<>>
    /\ select_clickpack = None
    /\ pending_clickpack_delete = <<>>
    /\ has_refreshed = FALSE
    /\ dirs = {PickedPath}
    /\ ui = UiIdle
    /\ loaders = << [pc |-> "get_hiatus", hiatus_url |-> "hiatus"] >>
    /\ \/ tasks = <<>>
       \/ /\ contains_key(db.entries, "a")
          /\ tasks = << download_entry(get(db.entries, "a"), "a", PickedPath, FALSE, "hiatus") >>
    /\ upserted = {}
    /\ budget = NoBudget
    /\ server = "fixed"
    /\ input = <<>>

NextLocks ==
    \/ \E i \in DOMAIN loaders :
        \/ \E downloads \in Responses : hiatus_db_lock(i, downloads)
        \/ hiatus_reload_sorting(i)
        \/ load_hiatus_err(i)
    \/ \E i \in DOMAIN tasks :
        \/ download_report(i)
        \/ download_inc(i)

SpecLocks == InitLocks /\ [][NextLocks]_vars

\* C20: the guards of the Database and of the Status are dropped before the
\* thread that took them takes another lock or makes a request, and a
\* download thread takes no lock but that of pending_update.
C20_LockDiscipline ==
    /\ \A i \in DOMAIN loaders :
          Held(loaders[i]) # {} => (Takes(loaders[i]) = {} /\ ~Requests(loaders[i]))
    /\ \A i \in DOMAIN tasks :
          /\ Held(tasks[i]) = {}
          /\ Takes(tasks[i]) \subseteq {"pending_update"}

-----------------------------------------------------------------------------
(* Frame of the drain in the running panel (Spec). *)

\* C22: the drain of a download result for an entry of the catalog changes
\* nothing of that entry but its download status: its downloads count, the
\* cached string of the count and its immutable fields are after the drain
\* what they were immediately before it.
C22_DrainChangesStatusOnly ==
    [][ (DrainStep /\ contains_key(db.entries, Draining.key)) =>
           [get(db'.entries, Draining.key)
                EXCEPT !.dwn_status = get(db.entries, Draining.key).dwn_status]
             = get(db.entries, Draining.key)
      ]_vars

-----------------------------------------------------------------------------
(* Who waits for whom (SpecWait): the update cycle of show(), two loader    *)
(* threads and two download threads, every lock acquisition a step of its   *)
(* own wherever a guard is held across it. A step that takes a lock waits   *)
(* while another thread holds that lock; reads are taken to exclude each    *)
(* other like writes, which only adds waiting.                              *)

\* A faulty update cycle whose read guard of the queue lives to the end of
\* update_pending_update; C21 has to tell it from UiHeld.
UiHeld_to_end(u) == IF u.pc \in {"upsert", "clear"} THEN {"pending_update"} ELSE {}

\* the guard the update cycle holds at u.pc: that of the for loop's
\* self.pending_update.read().unwrap(), from the first turn to the last
UiHeld(u) == IF u.pc = "upsert" THEN {"pending_update"} ELSE {}

\* the lock the next step of show() takes
UiTakes(u) ==
    IF u.pc \in {"idle", "did_filter"} THEN {"status"}
    ELSE IF u.pc \in {"filter", "upsert"} THEN {"db"}
    ELSE IF u.pc \in {"pending", "clear"} THEN {"pending_update"}
    ELSE {}

UiThread == [id |-> <<"ui", 0>>, held |-> UiHeld(ui), takes |-> UiTakes(ui)]
LoaderThread(i) ==
    [id |-> <<"loader", i>>, held |-> Held(loaders[i]), takes |-> Takes(loaders[i])]
TaskThread(i) ==
    [id |-> <<"task", i>>, held |-> Held(tasks[i]), takes |-> Takes(tasks[i])]

Threads ==
    {UiThread} \cup {LoaderThread(i) : i \in DOMAIN loaders}
               \cup {TaskThread(i) : i \in DOMAIN tasks}

\* t's next step takes a lock that u holds
WaitsFor(t, u) == t.takes \cap u.held # {}

Blocked(t) == \E u \in Threads : WaitsFor(t, u)

\* for (k, v) in self.pending_update.read().unwrap().iter(): the read guard
\* is taken, the queue is not empty
pending_read_lock ==
    /\ ui.pc = "pending"
    /\ pending_update # <<>>
    /\ ui' = [ui EXCEPT !.pc = "upsert", !.i = 0]
    /\ UNCHANGED <<live, status, db, filtered_entries, search_query, tags,
                   pending_update, select_clickpack, pending_clickpack_delete,
                   has_refreshed, dirs, loaders, tasks, upserted, server, budget, input>>

\* one turn of the loop: self.db.write().unwrap().entries.insert(..) and the
\* upsert into the view; after the last turn the read guard is dropped
upsert_entry ==
    /\ ui.pc = "upsert"
    /\ LET i == ui.i + 1
           e == pending_update[i]
       IN /\ db' = [db EXCEPT !.entries = drain_upsert(db.entries, e)]
          /\ filtered_entries' = drain_filtered(filtered_entries, e)
          /\ upserted' = upserted \cup {e.key}
          /\ ui' = IF i = Len(pending_update)
                   THEN [ui EXCEPT !.pc = "clear", !.i = 0]
                   ELSE [ui EXCEPT !.i = i]
    /\ UNCHANGED <<live, status, search_query, tags, pending_update,
                   select_clickpack, pending_clickpack_delete, has_refreshed, dirs,
                   loaders, tasks, server, budget, input>>

\* a, b clicked and downloading, then Refresh: the thread of the first load
\* waits for its popularity response, that of the second for its catalog
InitWait ==
    /\ live = FALSE
    /\ status = Loading
    /\ db = [CatalogV1 EXCEPT !.entries =
                [i \in 1..2 |-> [CatalogV1.entries[i] EXCEPT !.val.dwn_status = Downloading]]]
    /\ filtered_entries = db.entries
    /\ search_query = EmptyQuery
    /\ tags = TagsDefault
    /\ pending_update = <<>>
    /\ select_clickpack = None
    /\ pending_clickpack_delete = <<>>
    /\ has_refreshed = FALSE
    /\ dirs = {PickedPath}
    /\ ui = UiIdle
    /\ loaders = << [pc |-> "get_hiatus", hiatus_url |-> "hiatus"], load_database >>
    /\ tasks = [i \in 1..2 |->
                  download_entry(CatalogV1.entries[i].val, CatalogV1.entries[i].key,
                                 PickedPath, FALSE, "hiatus")]
    /\ upserted = {}
    /\ budget = NoBudget
    /\ server = "changing"
    /\ input = <<>>

\* the popularity responses of this specification: the counts play no part
\* in who holds which lock
WaitResponses == {r \in Responses : DOMAIN r \subseteq {"a"}}

NextWait ==
    \/ /\ ~Blocked(UiThread)
       /\ \/ show_begin \/ show_filter \/ show_did_filter
          \/ pending_read_lock \/ upsert_entry \/ drain_empty \/ drain_clear
          \/ show_end
    \/ \E i \in DOMAIN loaders :
        \/ load_database_err(i)
        \/ ~Blocked(LoaderThread(i)) /\ load_database_ok(i)
        \/ load_database_loaded(i)
        \/ \E downloads \in WaitResponses :
              ~Blocked(LoaderThread(i)) /\ hiatus_db_lock(i, downloads)
        \/ hiatus_reload_sorting(i)
        \/ load_hiatus_err(i)
    \/ \E i \in DOMAIN tasks :
        \/ ~Blocked(TaskThread(i)) /\ download_report(i)
        \/ download_inc(i)

SpecWait == InitWait /\ [][NextWait]_vars

\* C21: no set of threads is such that each of them waits for a lock that a
\* thread of the set holds (a set of one: a thread that asks for a lock it
\* holds itself, as clear() under the read guard of the loop would).
C21_NoWaitCycle ==
    \A S \in SUBSET Threads :
        S # {} => \E t \in S : \A u \in S : ~WaitsFor(t, u)

\* C21 at work: a download thread waits for the queue that the update cycle
\* holds, which waits for the Database that load_hiatus holds
C21_Witness ==
    /\ ui.pc = "upsert"
    /\ \E i \in DOMAIN tasks : WaitsFor(TaskThread(i), UiThread)
    /\ \E i \in DOMAIN loaders : WaitsFor(UiThread, LoaderThread(i))

-----------------------------------------------------------------------------
(* The rows and the catalog in the running panel (Spec). *)

\* C23: while the table is interactive (show() has read a status that is
\* neither NotLoaded nor Loading and is in show_table, a row's status write
\* included), every key of the filtered view is a key of the catalog, and
\* the unwrap() of set_status! has never met a missing name.
C23_RowsAreCatalogEntries ==
    /\ (InTable \/ ui.pc = "set_status") =>
          /\ TableEnabled(ui.status)
          /\ Keys(filtered_entries) \subseteq Keys(db.entries)
    /\ ui.pc # "panicked"

====
